---- MODULE Spec2Model ----
(***************************************************************************)
(* Company-name extraction from job pages (src/main.py).                   *)
(*                                                                         *)
(* Strings are sequences of one-character strings, so that every regular   *)
(* expression and every str method of the source is computed character by  *)
(* character.  A parsed document (BeautifulSoup) is a record holding, for  *)
(* each selector the extractors use, the raw text of the elements that     *)
(* selector matches, in document order.                                    *)
(***************************************************************************)
EXTENDS Naturals, Sequences, FiniteSets, TLC

VARIABLES
    pc,          \* position in main's loop over the targets
    u,           \* the target being processed (main, line 347)
    exists,      \* os.path.exists(u), the file system's answer for u
    html,        \* the fetched page
    names,       \* names of the current page
    extractor,   \* provenance label of the current page
    is_search,   \* what is_linkedin_search_page answered for this page
    report,      \* the report row written for this page
    keep_duplicates, \* the --keep-duplicates flag of the run
    txt,         \* text layer: the string under the normalizer
    prevTxt,     \* text layer: txt before the last normalizer pass
    applied,     \* text layer: number of normalizer passes so far
    verdict,     \* text layer: answer of looks_like_noise on txt
    raw_items,   \* dedupe layer: the candidate list as first produced
    items,       \* dedupe layer: the list after the passes so far
    prevItems,   \* dedupe layer: items before the last pass
    passes       \* dedupe layer: number of dedupe passes so far

vars == <<pc, u, exists, html, names, extractor, is_search, report,
          keep_duplicates, txt, prevTxt, applied, verdict, raw_items, items, prevItems, passes>>

pageVars == <<pc, u, exists, html, names, extractor, is_search, report,
              keep_duplicates>>
textVars == <<txt, prevTxt, applied, verdict>>
listVars == <<raw_items, items, prevItems, passes>>

(***************************************************************************)
(* Characters                                                              *)
(***************************************************************************)
LowerAlpha == <<"a", "b", "c", "d", "e", "f", "g", "h", "i", "j", "k", "l", "m", "n", "o", "p", "q", "r", "s", "t", "u", "v", "w", "x", "y", "z">>
UpperAlpha == <<"A", "B", "C", "D", "E", "F", "G", "H", "I", "J", "K", "L", "M", "N", "O", "P", "Q", "R", "S", "T", "U", "V", "W", "X", "Y", "Z">>
DigitChars == {"0", "1", "2", "3", "4", "5", "6", "7", "8", "9"}
LowerChars == {LowerAlpha[i] : i \in 1..26}
UpperChars == {UpperAlpha[i] : i \in 1..26}

\* \s of the re module, and the characters str.strip() removes
WS == {" ", "\t", "\n", "\r"}
\* the argument of .strip(" -|\n\t\r")
SepChars == {" ", "-", "|", "\n", "\t", "\r"}

IsLetter(c) == c \in LowerChars \/ c \in UpperChars
IsDigit(c) == c \in DigitChars
\* \w of the re module
IsWordChar(c) == IsLetter(c) \/ IsDigit(c) \/ c = "_"

ToLower(c) ==
    IF c \in UpperChars
    THEN LowerAlpha[CHOOSE i \in 1..26 : UpperAlpha[i] = c]
    ELSE c

\* str.lower()
lower(s) == [i \in 1..Len(s) |-> ToLower(s[i])]

MinOf(S) == CHOOSE m \in S : \A n \in S : m <= n
MaxOf(S) == CHOOSE m \in S : \A n \in S : m >= n

\* str.strip(chars)
strip_chars(s, chars) ==
    LET keep == {i \in 1..Len(s) : s[i] \notin chars}
    IN  IF keep = {} THEN <<>> ELSE SubSeq(s, MinOf(keep), MaxOf(keep))

\* str.strip()
strip(s) == strip_chars(s, WS)

\* s[i:].startswith(pat), 1-based
StartsWithAt(s, i, pat) ==
    /\ i >= 1
    /\ i + Len(pat) - 1 <= Len(s)
    /\ \A k \in 1..Len(pat) : s[i + k - 1] = pat[k]

\* pat in s
Contains(s, pat) == \E i \in 1..(Len(s) + 1) : StartsWithAt(s, i, pat)

\* re.search(pat, s, re.I) for a literal lower-case pat
ContainsCI(s, pat) == Contains(lower(s), pat)

\* str.startswith
StartsWith(s, pat) == StartsWithAt(s, 1, pat)

\* is position p of s a word character (outside the string: no)
IsWordAt(s, p) == p >= 1 /\ p <= Len(s) /\ IsWordChar(s[p])

\* \b between s[p-1] and s[p]
WordBoundary(s, p) == IsWordAt(s, p - 1) # IsWordAt(s, p)

\* \bw\b matching at position i
WholeWordAt(s, i, w) ==
    /\ StartsWithAt(s, i, w)
    /\ WordBoundary(s, i)
    /\ WordBoundary(s, i + Len(w))

\* the concatenation of a sequence of sequences
RECURSIVE Flatten(_)
Flatten(ss) == IF ss = <<>> THEN <<>> ELSE Head(ss) \o Flatten(Tail(ss))

SeqsUpTo(S, n) == UNION {[1..k -> S] : k \in 0..n}

(***************************************************************************)
(* Normalization and noise filtering                                       *)
(***************************************************************************)
JobsIn == <<"j", "o", "b", "s", " ", "i", "n">>
KwApply == <<"a", "p", "p", "l", "y">>
KwHiring == <<"h", "i", "r", "i", "n", "g">>
KwCareer == <<"c", "a", "r", "e", "e", "r">>
KwCareers == <<"c", "a", "r", "e", "e", "r", "s">>
KwJob == <<"j", "o", "b">>
KwJobs == <<"j", "o", "b", "s">>
BrLinkedin == <<"l", "i", "n", "k", "e", "d", "i", "n">>
BrIndeed == <<"i", "n", "d", "e", "e", "d">>
BrGlassdoor == <<"g", "l", "a", "s", "s", "d", "o", "o", "r">>
BrMonster == <<"m", "o", "n", "s", "t", "e", "r">>

\* (LinkedIn|Indeed|Glassdoor|Monster) under re.I
SiteBrands == {BrLinkedin, BrIndeed, BrGlassdoor, BrMonster}
\* (apply|hiring|careers?)
CtaWords == {KwApply, KwHiring, KwCareer, KwCareers}

\* re.sub(r"\s+", " ", s)
RECURSIVE CollapseFrom(_, _)
CollapseFrom(s, i) ==
    IF i > Len(s) THEN <<>>
    ELSE IF s[i] \in WS
         THEN (IF i > 1 /\ s[i - 1] \in WS THEN <<>> ELSE <<" ">>)
              \o CollapseFrom(s, i + 1)
         ELSE <<s[i]>> \o CollapseFrom(s, i + 1)

collapse_ws(s) == CollapseFrom(s, 1)

\* the end of the greedy \s* that starts at position i
RECURSIVE SkipWs(_, _)
SkipWs(s, i) ==
    IF i <= Len(s) /\ s[i] \in WS THEN SkipWs(s, i + 1) ELSE i

\* \s*\|\s*(LinkedIn|Indeed|Glassdoor|Monster).*?$ matching at position i.
\* No newline is left after collapse_ws, so .*?$ always reaches the end.
SiteSuffixAt(s, i) ==
    LET p == SkipWs(s, i)
    IN  /\ p <= Len(s)
        /\ s[p] = "|"
        /\ \E b \in SiteBrands : StartsWithAt(lower(s), SkipWs(s, p + 1), b)

\* re.sub(r"\s*\|\s*(LinkedIn|...).*?$", "", s, flags=re.I): the leftmost
\* match runs to the end of the string, so everything from it on is removed
strip_site_suffix(s) ==
    LET hits == {i \in 1..Len(s) : SiteSuffixAt(s, i)}
    IN  IF hits = {} THEN s ELSE SubSeq(s, 1, MinOf(hits) - 1)

clean_company_name(s) ==
    strip(strip_site_suffix(strip_chars(collapse_ws(s), SepChars)))

MinNameLen == 2
MinLetterRun == 3

\* re.search(r"\b\d+\b.*\bjobs?\b", low); "." matches no newline
CountThenJobs(low) ==
    \E i \in 1..Len(low) : \E j \in i..Len(low) :
        /\ \A k \in i..j : IsDigit(low[k])
        /\ WordBoundary(low, i)
        /\ WordBoundary(low, j + 1)
        /\ \E k \in (j + 1)..Len(low) :
              /\ \A m \in (j + 1)..(k - 1) : low[m] # "\n"
              /\ \/ WholeWordAt(low, k, KwJob)
                 \/ WholeWordAt(low, k, KwJobs)

\* re.search(r"\b(apply|hiring|careers?)\b", low)
HasCtaWord(low) ==
    \E i \in 1..Len(low) : \E w \in CtaWords : WholeWordAt(low, i, w)

\* re.search(r"[A-Za-z]{3,}\s", low)
HasLetterRun(low) ==
    \E j \in (MinLetterRun + 1)..Len(low) :
        /\ low[j] \in WS
        /\ \A k \in (j - MinLetterRun)..(j - 1) : IsLetter(low[k])

looks_like_noise(name) ==
    LET n == strip(name)
        low == lower(n)
    IN  IF Len(n) < MinNameLen THEN TRUE
        ELSE IF Contains(low, JobsIn) THEN TRUE
        ELSE IF CountThenJobs(low) THEN TRUE
        ELSE IF HasCtaWord(low) /\ ~HasLetterRun(low) THEN TRUE
        ELSE FALSE

(***************************************************************************)
(* Order-preserving de-duplication                                         *)
(***************************************************************************)
\* k = x.lower().strip()
DedupeKey(x) == strip(lower(x))

\* the loop of dedupe_preserve_order from item i on, seen being the keys
\* already kept
RECURSIVE DedupeFrom(_, _, _)
DedupeFrom(xs, i, seen) ==
    IF i > Len(xs) THEN <<>>
    ELSE LET k == DedupeKey(xs[i])
         IN  IF k = <<>> \/ k \in seen
             THEN DedupeFrom(xs, i + 1, seen)
             ELSE <<strip(xs[i])>> \o DedupeFrom(xs, i + 1, seen \cup {k})

\* what a pass would return had the key been computed without .strip()
RECURSIVE DedupeUnstrippedKeyFrom(_, _, _)
DedupeUnstrippedKeyFrom(xs, i, seen) ==
    IF i > Len(xs) THEN <<>>
    ELSE LET k == lower(xs[i])
         IN  IF k = <<>> \/ k \in seen
             THEN DedupeUnstrippedKeyFrom(xs, i + 1, seen)
             ELSE <<strip(xs[i])>> \o DedupeUnstrippedKeyFrom(xs, i + 1, seen \cup {k})

dedupe_unstripped_key(xs) == DedupeUnstrippedKeyFrom(xs, 1, {})

\* what a pass would return had the key been computed without .lower()
RECURSIVE DedupeCaseKeyFrom(_, _, _)
DedupeCaseKeyFrom(xs, i, seen) ==
    IF i > Len(xs) THEN <<>>
    ELSE LET k == strip(xs[i])
         IN  IF k = <<>> \/ k \in seen
             THEN DedupeCaseKeyFrom(xs, i + 1, seen)
             ELSE <<strip(xs[i])>> \o DedupeCaseKeyFrom(xs, i + 1, seen \cup {k})

dedupe_case_key(xs) == DedupeCaseKeyFrom(xs, 1, {})

dedupe_preserve_order(xs) == DedupeFrom(xs, 1, {})

(***************************************************************************)
(* URLs                                                                    *)
(***************************************************************************)
Www == <<"w", "w", "w", ".">>
FilePrefix == <<"f", "i", "l", "e", ":", "/", "/">>
SchemeSep == <<":", "/", "/">>
SearchRoute == <<"/", "j", "o", "b", "s", "/", "s", "e", "a", "r", "c", "h">>
LinkedinCom == <<"l", "i", "n", "k", "e", "d", "i", "n", ".", "c", "o", "m">>
ListMarker == <<"j", "o", "b", "s", "-", "s", "e", "a", "r", "c", "h", "_", "_", "r", "e", "s", "u", "l", "t", "s", "-", "l", "i", "s", "t">>

\* the characters urlsplit accepts in a scheme
IsSchemeChar(c) == IsLetter(c) \/ IsDigit(c) \/ c \in {"+", "-", "."}

\* urlsplit: what is left of url once a leading "scheme:" is taken off
AfterScheme(url) ==
    LET colons == {i \in 1..Len(url) : url[i] = ":"}
    IN  IF colons = {} THEN url
        ELSE LET i == MinOf(colons)
             IN  IF /\ i > 1
                    /\ IsLetter(url[1])
                    /\ \A k \in 1..(i - 1) : IsSchemeChar(url[k])
                 THEN SubSeq(url, i + 1, Len(url))
                 ELSE url

\* urlsplit: the netloc runs from after "//" to the first of "/", "?", "#"
Netloc(url) ==
    LET rest == AfterScheme(url)
    IN  IF ~StartsWith(rest, <<"/", "/">>) THEN <<>>
        ELSE LET ends == {i \in 3..Len(rest) : rest[i] \in {"/", "?", "#"}}
                 stop == IF ends = {} THEN Len(rest) + 1 ELSE MinOf(ends)
             IN  SubSeq(rest, 3, stop - 1)

\* urlsplit raises ValueError on an unbalanced "[" or "]" in the netloc
NetlocRaises(url) ==
    LET n == Netloc(url)
    IN  (\E i \in 1..Len(n) : n[i] = "[") # (\E i \in 1..Len(n) : n[i] = "]")

domain(url) ==
    IF NetlocRaises(url) THEN <<>>
    ELSE LET d == lower(Netloc(url))
         IN  IF StartsWith(d, Www) THEN SubSeq(d, Len(Www) + 1, Len(d)) ELSE d

\* os.path.exists(url) is the file system's answer, fs
is_local_path(url, fs) ==
    IF StartsWith(lower(url), FilePrefix) THEN TRUE
    ELSE IF ~Contains(url, SchemeSep) /\ fs THEN TRUE
    ELSE FALSE

(***************************************************************************)
(* Parsed documents                                                        *)
(*                                                                         *)
(* A page is a record: title is the text of <title>; ul says whether a     *)
(* ul.jobs-search__results-list is present and li holds its cards, each    *)
(* with the text under the subtitle anchor (a), under the h4 subtitle (h4) *)
(* and under the older job-card classes (alt); org, flavorA, company and   *)
(* flavorSpan hold the texts of the elements matched by the four detail    *)
(* selectors of LinkedIn; og and tw the content of the two title meta      *)
(* tags; cards the Indeed result cards, each with the text under its five  *)
(* company selectors; detail the texts matched by each of the six Indeed   *)
(* job-page selectors; rest the remaining raw markup.  An absent element   *)
(* and an empty text are both the empty string, as the code treats them.   *)
(***************************************************************************)
\* el.get_text(strip=True) of an element holding one text node
get_text(el) == strip(el)

\* the bracketed markup a field contributes to the raw page
Tag(t) == <<"<">> \o t \o <<">">>

RECURSIVE TagAll(_)
TagAll(ts) == IF ts = <<>> THEN <<>> ELSE Tag(Head(ts)) \o TagAll(Tail(ts))

RECURSIVE LiMarkup(_)
LiMarkup(cs) ==
    IF cs = <<>> THEN <<>>
    ELSE TagAll(<<Head(cs).a, Head(cs).h4, Head(cs).alt>>) \o LiMarkup(Tail(cs))

RECURSIVE CardMarkup(_)
CardMarkup(cs) ==
    IF cs = <<>> THEN <<>>
    ELSE TagAll(<<Head(cs).companyName, Head(cs).testid, Head(cs).infoSpan,
                  Head(cs).infoA, Head(cs).locName>>) \o CardMarkup(Tail(cs))

\* the page as the string the regular expressions of the dispatcher and of
\* is_linkedin_search_page search: every text of the document is in it, and
\* the class name of the results list whenever that list is
RawHtml(d) ==
    Tag(d.title)
    \o (IF d.ul THEN Tag(ListMarker) ELSE <<>>)
    \o LiMarkup(d.li)
    \o TagAll(d.org) \o TagAll(d.flavorA) \o TagAll(d.company) \o TagAll(d.flavorSpan)
    \o Tag(d.og) \o Tag(d.tw)
    \o CardMarkup(d.cards)
    \o TagAll(Flatten(d.detail))
    \o d.rest

NoDetail == <<<<>>, <<>>, <<>>, <<>>, <<>>, <<>>>>

\* the empty string fetch returns when the page could not be read
NoHtml ==
    [title |-> <<>>, ul |-> FALSE, li |-> <<>>, org |-> <<>>, flavorA |-> <<>>,
     company |-> <<>>, flavorSpan |-> <<>>, og |-> <<>>, tw |-> <<>>,
     cards |-> <<>>, detail |-> NoDetail, rest |-> <<>>]

(***************************************************************************)
(* Extraction helpers                                                      *)
(***************************************************************************)
TitleSep == <<" ", "-", " ">>
KwSignIn == <<"s", "i", "g", "n", " ", "i", "n">>
KwJoinNow == <<"j", "o", "i", "n", " ", "n", "o", "w">>

\* [-|•–—]: the bullet and the two dashes, which are not ASCII, go by name
TitleSplitChars == {"-", "|", "bullet", "ndash", "mdash"}

\* str.split(sep)
RECURSIVE split(_, _)
split(s, sep) ==
    LET hits == {i \in 1..Len(s) : StartsWithAt(s, i, sep)}
    IN  IF hits = {} THEN <<s>>
        ELSE <<SubSeq(s, 1, MinOf(hits) - 1)>>
             \o split(SubSeq(s, MinOf(hits) + Len(sep), Len(s)), sep)

\* re.split(r"[-|•–—]", s)
RECURSIVE split_chars(_, _)
split_chars(s, chars) ==
    LET hits == {i \in 1..Len(s) : s[i] \in chars}
    IN  IF hits = {} THEN <<s>>
        ELSE <<SubSeq(s, 1, MinOf(hits) - 1)>>
             \o split_chars(SubSeq(s, MinOf(hits) + 1, Len(s)), chars)

\* [p.strip() for p in parts if p.strip()]
RECURSIVE StrippedParts(_)
StrippedParts(parts) ==
    IF parts = <<>> THEN <<>>
    ELSE (IF strip(Head(parts)) = <<>> THEN <<>> ELSE <<strip(Head(parts))>>)
         \o StrippedParts(Tail(parts))

\* the second " - " segment of a title or meta content, normalized
SecondSegment(text) ==
    LET parts == StrippedParts(split(text, TitleSep))
    IN  IF text # <<>> /\ Len(parts) >= 2
        THEN <<clean_company_name(parts[2])>>
        ELSE <<>>

\* the first of the selectors' texts that is not empty, normalized
FirstText(texts) ==
    LET hits == {i \in 1..Len(texts) : get_text(texts[i]) # <<>>}
    IN  IF hits = {} THEN <<>>
        ELSE <<clean_company_name(get_text(texts[MinOf(hits)]))>>

\* for el in soup.select(sel): txt = el.get_text(strip=True); if txt: ...
RECURSIVE TextsOf(_)
TextsOf(els) ==
    IF els = <<>> THEN <<>>
    ELSE (IF get_text(Head(els)) = <<>> THEN <<>>
          ELSE <<clean_company_name(get_text(Head(els)))>>)
         \o TextsOf(Tail(els))

\* the same, skipping texts that match "sign in|join now" under re.I
RECURSIVE TopcardTexts(_)
TopcardTexts(els) ==
    IF els = <<>> THEN <<>>
    ELSE LET t == get_text(Head(els))
         IN  (IF t = <<>> \/ ContainsCI(t, KwSignIn) \/ ContainsCI(t, KwJoinNow)
              THEN <<>>
              ELSE <<clean_company_name(t)>>)
             \o TopcardTexts(Tail(els))

(***************************************************************************)
(* Indeed extractor                                                        *)
(***************************************************************************)
RECURSIVE IndeedCardNames(_)
IndeedCardNames(cs) ==
    IF cs = <<>> THEN <<>>
    ELSE FirstText(<<Head(cs).companyName, Head(cs).testid, Head(cs).infoSpan,
                     Head(cs).infoA, Head(cs).locName>>)
         \o IndeedCardNames(Tail(cs))

RECURSIVE IndeedDetailNames(_)
IndeedDetailNames(sels) ==
    IF sels = <<>> THEN <<>>
    ELSE TextsOf(Head(sels)) \o IndeedDetailNames(Tail(sels))

\* names = [n for n in names if n and not looks_like_noise(n)]
KeepIndeed(n) == n # <<>> /\ ~looks_like_noise(n)

extract_from_indeed(d) ==
    LET found == IndeedCardNames(d.cards)
                 \o IndeedDetailNames(d.detail)
                 \o SecondSegment(get_text(d.title))
    IN  [names |-> dedupe_preserve_order(SelectSeq(found, KeepIndeed)),
         extractor |-> "indeed"]

(***************************************************************************)
(* LinkedIn extractor                                                      *)
(***************************************************************************)
RECURSIVE LinkedinCardNames(_)
LinkedinCardNames(cs) ==
    IF cs = <<>> THEN <<>>
    ELSE FirstText(<<Head(cs).a, Head(cs).h4, Head(cs).alt>>)
         \o LinkedinCardNames(Tail(cs))

\* [n for n in names if n and n.lower() != "linkedin" and not looks_like_noise(n)]
KeepLinkedin(n) == n # <<>> /\ lower(n) # BrLinkedin /\ ~looks_like_noise(n)

linkedin_jobs_list_names(d) == SelectSeq(LinkedinCardNames(d.li), KeepLinkedin)

is_linkedin_search_page(url, d) ==
    IF ~Contains(domain(url), LinkedinCom) THEN FALSE
    ELSE IF Contains(url, SearchRoute) THEN TRUE
    ELSE IF ContainsCI(RawHtml(d), ListMarker) THEN TRUE
    ELSE FALSE

\* for meta_name in ["og:title", "twitter:title"]
MetaNames(d) ==
    (IF d.og = <<>> THEN <<>> ELSE SecondSegment(clean_company_name(d.og)))
    \o (IF d.tw = <<>> THEN <<>> ELSE SecondSegment(clean_company_name(d.tw)))

LinkedinFallbackNames(d) ==
    linkedin_jobs_list_names(d)
    \o TopcardTexts(d.org) \o TopcardTexts(d.flavorA)
    \o TopcardTexts(d.company) \o TopcardTexts(d.flavorSpan)
    \o MetaNames(d)
    \o SecondSegment(get_text(d.title))

extract_from_linkedin(d, url) ==
    IF is_linkedin_search_page(url, d) /\ linkedin_jobs_list_names(d) # <<>>
    THEN [names |-> dedupe_preserve_order(linkedin_jobs_list_names(d)),
          extractor |-> "linkedin_list"]
    ELSE [names |-> dedupe_preserve_order(SelectSeq(LinkedinFallbackNames(d), KeepLinkedin)),
          extractor |-> "linkedin_fallback"]

(***************************************************************************)
(* Generic fallback                                                        *)
(***************************************************************************)
\* re.search(r"(job|jobs|apply|hiring|careers?)", p, re.I)
HasJobVocabulary(p) ==
    \/ ContainsCI(p, KwJob)
    \/ ContainsCI(p, KwApply)
    \/ ContainsCI(p, KwHiring)
    \/ ContainsCI(p, KwCareer)

\* the title segments the loop adds, in the order of the title
GenericSegments(d) ==
    LET title == get_text(d.title)
        parts == IF title = <<>> THEN <<>>
                 ELSE StrippedParts(split_chars(title, TitleSplitChars))
        kept == SelectSeq(parts, LAMBDA p : ~HasJobVocabulary(p))
    IN  [i \in 1..Len(kept) |-> clean_company_name(kept[i])]

\* names: Set[str]
GenericNameSet(d) == {GenericSegments(d)[i] : i \in 1..Len(GenericSegments(d))}

\* the orders in which iterating a set of strings can yield its elements:
\* the order follows the strings' hashes, which are salted per process
IterationOrders(S) ==
    {f \in [1..Cardinality(S) -> S] : \A i, j \in 1..Cardinality(S) : f[i] = f[j] => i = j}

KeepGeneric(n) == ~looks_like_noise(n)

\* every result the call can return: one for each iteration order of names
extract_generic(d) ==
    {[names |-> dedupe_preserve_order(SelectSeq(order, KeepGeneric)),
      extractor |-> "generic"] : order \in IterationOrders(GenericNameSet(d))}

(***************************************************************************)
(* Dispatcher                                                              *)
(***************************************************************************)
\* the branch extract_company_names takes
RouteSniffLinkedinFirst(url, fs, d) ==
    IF Contains(domain(url), BrIndeed) THEN "indeed"
    ELSE IF Contains(domain(url), BrLinkedin) THEN "linkedin"
    ELSE IF is_local_path(url, fs) /\ ContainsCI(RawHtml(d), BrLinkedin) THEN "linkedin"
    ELSE IF is_local_path(url, fs) /\ ContainsCI(RawHtml(d), BrIndeed) THEN "indeed"
    ELSE "generic"

Route(url, fs, d) ==
    IF Contains(domain(url), BrIndeed) THEN "indeed"
    ELSE IF Contains(domain(url), BrLinkedin) THEN "linkedin"
    ELSE IF is_local_path(url, fs) /\ ContainsCI(RawHtml(d), BrIndeed) THEN "indeed"
    ELSE IF is_local_path(url, fs) /\ ContainsCI(RawHtml(d), BrLinkedin) THEN "linkedin"
    ELSE "generic"

\* every (names, extractor) pair the call can return
extract_company_names(url, fs, d) ==
    IF Route(url, fs, d) = "indeed" THEN {extract_from_indeed(d)}
    ELSE IF Route(url, fs, d) = "linkedin" THEN {extract_from_linkedin(d, url)}
    ELSE extract_generic(d)

(***************************************************************************)
(* Text layer: the normalizer and the noise classifier applied to raw      *)
(* candidate strings, as every extractor applies them to an element's text *)
(***************************************************************************)
MaxTokens == 3
MaxApply == 2

TokAcme == <<"A", "c", "m", "e">>
TokApply == <<"A", "p", "p", "l", "y">>
TokHiring == <<"h", "i", "r", "i", "n", "g">>
TokNow == <<"n", "o", "w">>
TokWe == <<"W", "e">>
TokCount == <<"1", "2">>
TokJobs == <<"j", "o", "b", "s">>
TokIn == <<"i", "n">>
TokSuffix == <<"|", " ", "L", "i", "n", "k", "e", "d", "I", "n">>

Tokens ==
    {TokAcme, TokApply, TokHiring, TokNow, TokWe, TokCount, TokJobs, TokIn,
     TokSuffix, <<" ">>, <<"\t">>, <<"-">>, <<"&">>}

TextInputs == {Flatten(ts) : ts \in SeqsUpTo(Tokens, MaxTokens)}

PageIdle ==
    /\ pc = "idle"
    /\ u = <<>>
    /\ exists = FALSE
    /\ html = NoHtml
    /\ names = <<>>
    /\ extractor = "none"
    /\ is_search = "n/a"
    /\ report = <<>>
    /\ keep_duplicates = FALSE

TextIdle ==
    /\ txt = <<>>
    /\ prevTxt = <<>>
    /\ applied = 0
    /\ verdict = "unknown"

ListIdle ==
    /\ raw_items = <<>>
    /\ items = <<>>
    /\ prevItems = <<>>
    /\ passes = 0

InitText ==
    /\ txt \in TextInputs
    /\ prevTxt = txt
    /\ applied = 0
    /\ verdict = "unknown"
    /\ PageIdle
    /\ ListIdle

\* one call of clean_company_name on the current string
Normalize ==
    /\ applied < MaxApply
    /\ prevTxt' = txt
    /\ txt' = clean_company_name(txt)
    /\ applied' = applied + 1
    /\ verdict' = "unknown"
    /\ UNCHANGED <<pageVars, listVars>>

\* one call of looks_like_noise on the current string; every extractor
\* hands it a string that clean_company_name returned
Classify ==
    /\ applied >= 1
    /\ verdict = "unknown"
    /\ verdict' = IF looks_like_noise(txt) THEN "noise" ELSE "name"
    /\ UNCHANGED <<txt, prevTxt, applied, pageVars, listVars>>

NextText == Normalize \/ Classify

SpecText == InitText /\ [][NextText]_vars

(***************************************************************************)
(* Dedupe layer: dedupe_preserve_order applied to a candidate list, once   *)
(* by the extractor and again by main                                      *)
(***************************************************************************)
MaxItems == 3
MaxPasses == 2

ItemAcme == <<"A", "c", "m", "e">>
ItemAcmeLow == <<"a", "c", "m", "e", " ">>
ItemAcmeUp == <<" ", "A", "C", "M", "E">>
ItemBeta == <<"B", "e", "t", "a">>
ItemBlank == <<" ", " ">>

ItemSet == {ItemAcme, ItemAcmeLow, ItemAcmeUp, ItemBeta, ItemBlank, <<>>}

InitList ==
    /\ raw_items \in SeqsUpTo(ItemSet, MaxItems)
    /\ items = raw_items
    /\ prevItems = raw_items
    /\ passes = 0
    /\ PageIdle
    /\ TextIdle

\* one call of dedupe_preserve_order on the current list
DedupePass ==
    /\ passes < MaxPasses
    /\ prevItems' = items
    /\ items' = dedupe_preserve_order(items)
    /\ passes' = passes + 1
    /\ UNCHANGED <<raw_items, pageVars, textVars>>

NextList == DedupePass

SpecDedupe == InitList /\ [][NextList]_vars

(***************************************************************************)
(* Page layer: main's loop over the targets                                *)
(***************************************************************************)
MaxCards == 2

UrlHttps == <<"h", "t", "t", "p", "s", ":", "/", "/">>
HostIndeed == <<"w", "w", "w", ".", "i", "n", "d", "e", "e", "d", ".", "c", "o", "m">>
HostLinkedin == <<"W", "W", "W", ".", "L", "i", "n", "k", "e", "d", "I", "n", ".", "c", "o", "m">>
HostLinkedinCn == <<"c", "n", ".", "l", "i", "n", "k", "e", "d", "i", "n", ".", "c", "o", "m">>
HostBoth == <<"i", "n", "d", "e", "e", "d", ".", "l", "i", "n", "k", "e", "d", "i", "n", ".", "c", "o", "m">>
HostAcme == <<"a", "c", "m", "e", ".", "o", "r", "g">>
PathPage == <<"/", "s", ".", "h", "t", "m", "l">>

TxtAcme == <<"A", "c", "m", "e">>
TxtAcmeLow == <<" ", "a", "c", "m", "e">>
TxtBeta == <<"B", "e", "t", "a">>
TxtGamma == <<"G", "a", "m", "m", "a">>
TxtLinkedIn == <<"L", "i", "n", "k", "e", "d", "I", "n">>
TxtIndeed == <<"I", "n", "d", "e", "e", "d">>
TxtApply == <<"A", "p", "p", "l", "y">>
TxtJoinNow == <<"J", "o", "i", "n", " ", "n", "o", "w">>
TxtAcmeCorp == <<"A", "c", "m", "e", " ", "C", "o", "r", "p">>
TxtAcmeCorpIndeed == <<" ", " ", "A", "c", "m", "e", " ", " ", " ", "C", "o", "r", "p", " ", " ", "|", " ", "I", "n", "d", "e", "e", "d">>
MetaDelta == <<"D", "e", "v", " ", "-", " ", "D", "e", "l", "t", "a", " ", "|", " ", "L", "i", "n", "k", "e", "d", "I", "n">>
MetaEps == <<"D", "e", "v", " ", "-", " ", "E", "p", "s">>
TitleLinkedin == <<"D", "e", "v", " ", "-", " ", "A", "c", "m", "e", " ", "|", " ", "L", "i", "n", "k", "e", "d", "I", "n">>
TitleBrandLinkedin == <<"D", "e", "v", " ", "-", " ", "L", "i", "n", "k", "e", "d", "I", "n">>
TitleBrandIndeed == <<"D", "e", "v", " ", "-", " ", "I", "n", "d", "e", "e", "d">>
TitleIndeedJob == <<"D", "e", "v", " ", "-", " ", "B", "e", "t", "a", " ", "-", " ", "I", "n", "d", "e", "e", "d", ".", "c", "o", "m">>
TitleGeneric == <<"S", "e", "n", "i", "o", "r", " ", "E", "n", "g", "i", "n", "e", "e", "r", " ", "-", " ", "A", "c", "m", "e", " ", "C", "o", "r", "p", " ", "-", " ", "J", "o", "b", "s">>
TitlePipe == <<"A", "c", "m", "e", " ", "|", " ", "B", "e", "t", "a">>
TitleNdash == <<"A", "c", "m", "e", " ", "ndash", " ", "B", "e", "t", "a">>
TitleCta == <<"D", "e", "v", " ", "-", " ", "A", "p", "p", "l", "y">>
RestIndeed == <<"<", "!", "-", "-", "I", "N", "D", "E", "E", "D", "-", "-", ">">>
RestLinkedin == <<"<", "!", "-", "-", "L", "i", "n", "k", "e", "d", "I", "n", "-", "-", ">">>
RestBoth == <<"<", "i", ">", "L", "i", "n", "k", "e", "d", "I", "n", " ", "I", "n", "d", "e", "e", "d", "<", "/", "i", ">">>

\* the targets: a URL or path, and whether a file of that name exists
UrlIndeed == UrlHttps \o HostIndeed \o PathPage
UrlLinkedinSearch == UrlHttps \o HostLinkedin \o SearchRoute
UrlLinkedinJob == UrlHttps \o HostLinkedin \o PathPage
UrlLinkedinCn == UrlHttps \o HostLinkedinCn \o SearchRoute
UrlBoth == UrlHttps \o HostBoth \o PathPage
UrlOther == UrlHttps \o HostAcme \o SearchRoute
UrlFile == FilePrefix \o PathPage
UrlBare == HostIndeed \o PathPage

Urls ==
    {UrlIndeed, UrlLinkedinSearch, UrlLinkedinJob, UrlLinkedinCn, UrlBoth,
     UrlOther, UrlFile, PathPage, UrlBare}

Targets ==
    {[url |-> x, fs |-> b] : x \in Urls, b \in BOOLEAN}
    \ {[url |-> x, fs |-> TRUE] : x \in {y \in Urls : Contains(y, SchemeSep)}}

LiCard(a, h4, alt) == [a |-> a, h4 |-> h4, alt |-> alt]

LiCards ==
    {LiCard(TxtAcme, <<>>, <<>>), LiCard(<<>>, TxtAcmeLow, <<>>),
     LiCard(<<>>, <<>>, TxtBeta), LiCard(TxtLinkedIn, <<>>, <<>>),
     LiCard(TxtApply, TxtGamma, <<>>)}

LinkedinDetails ==
    {[title |-> <<>>, org |-> <<>>, flavorA |-> <<>>, company |-> <<>>,
      flavorSpan |-> <<>>, og |-> <<>>, tw |-> <<>>],
     [title |-> TitleLinkedin, org |-> <<TxtGamma>>, flavorA |-> <<>>,
      company |-> <<>>, flavorSpan |-> <<>>, og |-> MetaDelta, tw |-> <<>>],
     [title |-> TitleBrandLinkedin, org |-> <<>>, flavorA |-> <<>>,
      company |-> <<TxtJoinNow, TxtBeta>>, flavorSpan |-> <<>>, og |-> <<>>,
      tw |-> MetaEps],
     [title |-> <<>>, org |-> <<>>, flavorA |-> <<TxtAcme>>, company |-> <<>>,
      flavorSpan |-> <<TxtLinkedIn>>, og |-> <<>>, tw |-> <<>>]}

LinkedinPages ==
    {[title |-> t.title, ul |-> ul, li |-> li, org |-> t.org,
      flavorA |-> t.flavorA, company |-> t.company, flavorSpan |-> t.flavorSpan,
      og |-> t.og, tw |-> t.tw, cards |-> <<>>, detail |-> NoDetail, rest |-> r] :
        t \in LinkedinDetails,
        li \in SeqsUpTo(LiCards, MaxCards),
        ul \in BOOLEAN,
        r \in {<<>>}}

IndeedCard(c, t, s, a, l) ==
    [companyName |-> c, testid |-> t, infoSpan |-> s, infoA |-> a, locName |-> l]

IndeedCards ==
    {IndeedCard(TxtAcme, <<>>, <<>>, <<>>, <<>>),
     IndeedCard(<<" ">>, <<>>, TxtBeta, TxtGamma, <<>>),
     IndeedCard(<<>>, <<>>, <<>>, <<>>, TxtApply)}

IndeedDetails ==
    {[title |-> <<>>, detail |-> NoDetail],
     [title |-> TitleBrandIndeed,
      detail |-> <<<<TxtAcmeCorpIndeed>>, <<>>, <<>>, <<>>, <<>>, <<>>>>],
     [title |-> TitleIndeedJob,
      detail |-> <<<<>>, <<>>, <<TxtAcme, TxtGamma>>, <<>>, <<>>, <<TxtIndeed>>>>]}

IndeedPages ==
    {[title |-> t.title, ul |-> FALSE, li |-> <<>>, org |-> <<>>,
      flavorA |-> <<>>, company |-> <<>>, flavorSpan |-> <<>>, og |-> <<>>,
      tw |-> <<>>, cards |-> cs, detail |-> t.detail, rest |-> r] :
        t \in IndeedDetails,
        cs \in SeqsUpTo(IndeedCards, MaxCards),
        r \in {<<>>, RestIndeed}}

PlainTitles ==
    {<<>>, TitleGeneric, TxtAcmeCorp, TitlePipe, TitleNdash, TitleCta}

PlainPages ==
    {[title |-> t, ul |-> FALSE, li |-> <<>>, org |-> <<>>, flavorA |-> <<>>,
      company |-> <<>>, flavorSpan |-> <<>>, og |-> <<>>, tw |-> <<>>,
      cards |-> <<>>, detail |-> NoDetail, rest |-> r] :
        t \in PlainTitles,
        r \in {<<>>, RestIndeed, RestLinkedin, RestBoth}}

\* the pages fetch can return: li elements only come inside their ul, and
\* a page that was read is not the empty string
Pages ==
    {d \in LinkedinPages \cup IndeedPages \cup PlainPages :
        /\ (d.li # <<>> => d.ul)
        /\ d # NoHtml}

Init ==
    /\ pc = "fetch"
    /\ u = <<>>
    /\ exists = FALSE
    /\ html = NoHtml
    /\ names = <<>>
    /\ extractor = "none"
    /\ is_search = "n/a"
    /\ report = <<>>
    /\ keep_duplicates \in BOOLEAN
    /\ TextIdle
    /\ ListIdle

\* html = fetch(u, sess) returned the page
FetchPage ==
    /\ pc = "fetch"
    /\ \E t \in Targets, d \in Pages :
          /\ u' = t.url
          /\ exists' = t.fs
          /\ html' = d
    /\ pc' = "extract"
    /\ UNCHANGED <<names, extractor, is_search, report, keep_duplicates,
                   textVars, listVars>>

\* html = fetch(u, sess) returned "": the page is reported and skipped
FetchFailed ==
    /\ pc = "fetch"
    /\ \E t \in Targets :
          /\ u' = t.url
          /\ exists' = t.fs
    /\ html' = NoHtml
    /\ report' = <<"fetch_error", 0, "empty_html">>
    /\ pc' = "next"
    /\ UNCHANGED <<names, extractor, is_search, keep_duplicates, textVars, listVars>>

\* names, extractor = extract_company_names(u, html)
Extract ==
    /\ pc = "extract"
    /\ \E r \in extract_company_names(u, exists, html) :
          /\ names' = r.names
          /\ extractor' = r.extractor
    /\ is_search' = IF Route(u, exists, html) # "linkedin" THEN "n/a"
                    ELSE IF is_linkedin_search_page(u, html) THEN "yes" ELSE "no"
    /\ pc' = "extracted"
    /\ UNCHANGED <<u, exists, html, report, keep_duplicates, textVars, listVars>>

\* the per-page de-duplication and the page's report row
RecordPage ==
    /\ pc = "extracted"
    /\ LET kept == IF keep_duplicates THEN names ELSE dedupe_preserve_order(names)
           note == IF Contains(domain(u), BrLinkedin) THEN "linkedin_login_wall?"
                   ELSE "no_names_detected"
       IN  /\ names' = kept
           /\ report' = IF kept # <<>> THEN <<extractor, Len(kept), "ok">>
                        ELSE <<extractor, 0, note>>
    /\ pc' = "next"
    /\ UNCHANGED <<u, exists, html, extractor, is_search, keep_duplicates,
                   textVars, listVars>>

\* time.sleep(args.sleep), and on to the next target
NextTarget ==
    /\ pc = "next"
    /\ pc' = "fetch"
    /\ u' = <<>>
    /\ exists' = FALSE
    /\ html' = NoHtml
    /\ names' = <<>>
    /\ extractor' = "none"
    /\ is_search' = "n/a"
    /\ report' = <<>>
    /\ UNCHANGED <<keep_duplicates, textVars, listVars>>

Next == FetchPage \/ FetchFailed \/ Extract \/ RecordPage \/ NextTarget

Spec == Init /\ [][Next]_vars

(***************************************************************************)
(* Properties                                                              *)
(***************************************************************************)
Distinct(xs) == \A i, j \in 1..Len(xs) : xs[i] = xs[j] => i = j

Elements(xs) == {xs[i] : i \in 1..Len(xs)}

\* C1: on a page that is_linkedin_search_page classifies as a search page and
\* whose results list yields N >= 1 names that are not noise, the extractor
\* returns exactly N distinct names, all of them from that list, labelled
\* linkedin_list.
C1_SearchListCount ==
    (pc = "extracted" /\ is_search = "yes" /\ linkedin_jobs_list_names(html) # <<>>)
    => /\ extractor = "linkedin_list"
       /\ Len(names) = Len(linkedin_jobs_list_names(html))
       /\ Distinct(names)
       /\ Elements(names) \subseteq Elements(linkedin_jobs_list_names(html))

\* C2: whenever the LinkedIn extractor asks, the page is classified as a
\* search page exactly when the URL contains "/jobs/search" or the markup
\* contains the results-list marker, a saved snapshot's path included.
C2_SearchDetection ==
    (pc = "extracted" /\ is_search # "n/a")
    => ((is_search = "yes")
        <=> (Contains(u, SearchRoute) \/ ContainsCI(RawHtml(html), ListMarker)))

\* the route the priority rule of C3 gives
ClaimedRoute ==
    IF Contains(domain(u), BrIndeed) THEN "indeed"
    ELSE IF Contains(domain(u), BrLinkedin) THEN "linkedin"
    ELSE IF ~is_local_path(u, exists) THEN "generic"
    ELSE IF ContainsCI(RawHtml(html), BrIndeed) THEN "indeed"
    ELSE IF ContainsCI(RawHtml(html), BrLinkedin) THEN "linkedin"
    ELSE "generic"

\* C3: every page is routed by host first (indeed, then linkedin), a local
\* path or file:// reference by the tokens of its markup (indeed, then
\* linkedin), anything else to Generic; and the label returned is one of the
\* four and is the one of the chosen route.
C3_RoutingPriority ==
    pc = "extracted"
    => /\ extractor \in {"indeed", "linkedin_list", "linkedin_fallback", "generic"}
       /\ (extractor = "indeed") <=> (ClaimedRoute = "indeed")
       /\ (extractor \in {"linkedin_list", "linkedin_fallback"}) <=> (ClaimedRoute = "linkedin")
       /\ (extractor = "generic") <=> (ClaimedRoute = "generic")

\* a saved page naming both sites, read from a local path, went to Indeed
C3_Witness ==
    /\ pc = "extracted"
    /\ u = PathPage
    /\ exists
    /\ html.rest = RestBoth
    /\ extractor = "indeed"

\* low holds a call-to-action word and, apart from it, a run of at least
\* three letters that is followed by whitespace
HasSeparateLetterRun(low) ==
    \E i \in 1..Len(low) : \E w \in CtaWords :
        /\ WholeWordAt(low, i, w)
        /\ \E j \in (MinLetterRun + 1)..Len(low) :
              /\ low[j] \in WS
              /\ \A k \in (j - MinLetterRun)..(j - 1) : IsLetter(low[k])
              /\ (j - 1 < i \/ j - MinLetterRun >= i + Len(w))

\* C4: a candidate with a whole-word call-to-action token that no other rule
\* rejects is noise exactly when it has no separate run of at least three
\* letters followed by whitespace.
C4_CtaRule ==
    LET n == strip(txt)
        low == lower(n)
    IN  (/\ verdict # "unknown"
         /\ Len(n) >= MinNameLen
         /\ ~Contains(low, JobsIn)
         /\ ~CountThenJobs(low)
         /\ HasCtaWord(low))
        => ((verdict = "noise") <=> ~HasSeparateLetterRun(low))

\* C5: a second pass of the normalizer changes nothing.
C5_NormalizerIdempotent == applied >= 2 => txt = prevTxt

\* key = lowercase + trim
TrimmedLowercase(x) == strip(lower(x))

\* the positions of xs that hold the first occurrence of a non-empty key
FirstOccurrences(xs) ==
    {i \in 1..Len(xs) :
        /\ TrimmedLowercase(xs[i]) # <<>>
        /\ \A j \in 1..(i - 1) : TrimmedLowercase(xs[j]) # TrimmedLowercase(xs[i])}

\* the n-th smallest element of a set of positions
NthOf(S, n) == CHOOSE i \in S : Cardinality({j \in S : j <= i}) = n

\* C6: one pass returns the first occurrences of the keys, in their order,
\* each trimmed: no two results share a key, and no result is blank.
C6_FirstOccurrences ==
    passes = 1
    => /\ Len(items) = Cardinality(FirstOccurrences(raw_items))
       /\ \A n \in 1..Len(items) :
             items[n] = strip(raw_items[NthOf(FirstOccurrences(raw_items), n)])
       /\ \A a, b \in 1..Len(items) :
             TrimmedLowercase(items[a]) = TrimmedLowercase(items[b]) => a = b
       /\ \A a \in 1..Len(items) : strip(items[a]) # <<>>

\* "Acme", a blank and "acme " went in, "Acme" alone came out
C6_Witness ==
    /\ passes = 1
    /\ raw_items = <<ItemAcme, ItemBlank, ItemAcmeLow>>
    /\ items = <<ItemAcme>>

\* C7: a pass over the result of a pass returns it unchanged.
C7_DedupeFixedPoint == passes >= 2 => items = prevItems

\* a second pass ran over a list the first pass had shortened
C7_Witness ==
    /\ passes = 2
    /\ raw_items = <<ItemAcmeUp, ItemAcme, ItemBeta>>
    /\ Len(items) = 2
    /\ prevItems = items

\* C8: the Generic extractor keeps the second segment of a title that has
\* two or more, and returns nothing for a title without a separator.
C8_GenericTitle ==
    LET title == get_text(html.title)
        segments == StrippedParts(split_chars(title, TitleSplitChars))
    IN  (pc = "extracted" /\ extractor = "generic")
        => /\ Len(segments) >= 2 => clean_company_name(segments[2]) \in Elements(names)
           /\ (\A i \in 1..Len(title) : title[i] \notin TitleSplitChars) => names = <<>>

\* C9: no returned name is empty or noise, no LinkedIn result holds
\* "LinkedIn" and no Indeed result holds "Indeed".
C9_NoBrandNames ==
    pc = "extracted"
    => \A i \in 1..Len(names) :
          /\ names[i] # <<>>
          /\ ~looks_like_noise(names[i])
          /\ extractor \in {"linkedin_list", "linkedin_fallback"} => names[i] # TxtLinkedIn
          /\ extractor = "indeed" => names[i] # TxtIndeed

\* C10: the Generic extractor returns the title's segments left to right,
\* so the names are one fixed sequence for each page.
C10_FirstSeenOrder ==
    (pc = "extracted" /\ extractor = "generic")
    => names = dedupe_preserve_order(SelectSeq(GenericSegments(html), KeepGeneric))

====
